---------------------------- MODULE Spec2Model ----------------------------
(***************************************************************************)
(* The hybrid quantum-classical optimisation loop of the two tutorial      *)
(* scripts:                                                                *)
(*   src/hybrid_braket_local.py   qubit_rotation(num_steps, stepsize)      *)
(*   src/hybrid_braket_aws.py     hybrid_braket_aws(num_steps, stepsize)   *)
(*                                                                         *)
(* Real numbers are fixed-point integers: the real x is the integer        *)
(* round(x * Scale).  The circuit RX(a) RY(b) on |0> measured in PauliZ    *)
(* has expectation value cos(a) * cos(b); the gradient is the              *)
(* parameter-shift rule applied to the circuit.  Timestamps of the metric  *)
(* records are not modelled.                                               *)
(***************************************************************************)
EXTENDS Integers, Sequences, FiniteSets, TLC

VARIABLES
    variant,       \* "local" (qubit_rotation) or "aws" (hybrid_braket_aws); "none" before a call
    num_steps,     \* argument num_steps of the running invocation
    stepsize,      \* argument stepsize of the running invocation (fixed point)
    opt,           \* the optimizer object built by the invocation
    params,        \* the local variable params: [val, requires_grad]
    it,            \* number of items the for loop has taken from range(num_steps)
    i,             \* the loop variable i (-1 while unbound, before the first iteration)
    expval,        \* the local variable expval
    records,       \* metric records emitted by log_metric during this invocation
    result,        \* <<>> while nothing was returned, <<params>> after return
    pc,            \* position of the invocation
    exception,     \* "none", or the call that raised: "step", "eval"
    optCalls,      \* calls of opt.step made by this invocation
    circuitCalls,  \* calls of circuit made by the loop body of this invocation
    prev           \* summary of the last invocation that returned in this process

vars == <<variant, num_steps, stepsize, opt, params, it, i, expval, records,
          result, pc, exception, optCalls, circuitCalls, prev>>

-----------------------------------------------------------------------------
(* Bounds of the model *)

MaxSteps == 3

MaxLen == 3

Scale == 10000

Terms == 6

-----------------------------------------------------------------------------
(* Fixed-point arithmetic *)

DivRound(a, b) == (2 * a + b) \div (2 * b)

Pi == DivRound(31416 * Scale, 10000)

HalfPi == DivRound(Pi, 2)

TwoPi == 2 * Pi

RECURSIVE CosSeries(_, _, _)
CosSeries(x2, term, k) ==
    IF k > Terms THEN 0
    ELSE LET t == DivRound(-(term * x2), (2 * k - 1) * (2 * k) * Scale)
         IN  t + CosSeries(x2, t, k + 1)

\* cos on [0, pi/2]: 1 - x^2/2! + x^4/4! - ...
CosReduced(x) == Scale + CosSeries(DivRound(x * x, Scale), Scale, 1)

Cos(x) ==
    LET r == x % TwoPi
        h == IF r > Pi THEN TwoPi - r ELSE r
    IN  IF h > HalfPi THEN -CosReduced(Pi - h) ELSE CosReduced(h)

-----------------------------------------------------------------------------
(* The circuit evaluator and the optimizer *)

\* Python's p[k] for k >= 0 raises IndexError unless k < len(p).
HasIndex(p, k) == k < Len(p)

\* Mutant of circuit: the elements 1 and 2 are read instead of 0 and 1.
circuit_shifted(p) ==
    IF HasIndex(p, 1) /\ HasIndex(p, 2)
    THEN [ok |-> TRUE, val |-> DivRound(Cos(p[2]) * Cos(p[3]), Scale)]
    ELSE [ok |-> FALSE, val |-> 0]

\* circuit(params): RX(params[0]); RY(params[1]); expval(PauliZ(0)).
\* Only the elements 0 and 1 are read; <Z> = cos(params[0]) * cos(params[1]).
circuit(p) ==
    IF HasIndex(p, 0) /\ HasIndex(p, 1)
    THEN [ok |-> TRUE, val |-> DivRound(Cos(p[1]) * Cos(p[2]), Scale)]
    ELSE [ok |-> FALSE, val |-> 0]

\* from pennylane import numpy as np; np.array(list): a tensor with
\* requires_grad=True (the returned tensor is printed so in the local script).
pennylane_numpy_array(list) == [val |-> list, requires_grad |-> TRUE]

\* import numpy as np; np.array(list): a plain ndarray, which has no
\* requires_grad attribute, so the optimizer reads it as not trainable.
numpy_array(list) == [val |-> list, requires_grad |-> FALSE]

\* Mutants of InitialList: the two constants swapped; a third element; the
\* vector returned by the previous invocation kept as the starting point.
InitialList_swapped == <<(3 * Scale) \div 4, Scale \div 2>>

InitialList_three == <<Scale \div 2, (3 * Scale) \div 4, 0>>

InitialList_carried ==
    IF result # <<>> THEN result[1].val ELSE <<Scale \div 2, (3 * Scale) \div 4>>

\* The constant list [0.5, 0.75].
InitialList == <<Scale \div 2, (3 * Scale) \div 4>>

\* qml.GradientDescentOptimizer(stepsize=stepsize): holds the step-size only.
GradientDescentOptimizer(s) == [stepsize |-> s]

Shift(p, k, d) == [p EXCEPT ![k] = @ + d]

\* Gradient of the circuit by the parameter-shift rule, one entry per element.
grad(p) ==
    [k \in 1..Len(p) |->
        DivRound(circuit(Shift(p, k, HalfPi)).val
                 - circuit(Shift(p, k, -HalfPi)).val, 2)]

\* Mutant of apply_grad: the step-size is dropped.
apply_grad_unscaled(o, x, g) == [k \in 1..Len(x) |-> x[k] - g[k]]

\* The update rule: x - stepsize * g.
apply_grad(o, x, g) ==
    [k \in 1..Len(x) |-> x[k] - DivRound(o.stepsize * g[k], Scale)]

\* opt.step(circuit, params): the updated argument when it is trainable, the
\* argument itself when it is not; raises when the circuit raises.
opt_step(o, p) ==
    IF ~circuit(p.val).ok THEN [ok |-> FALSE, val |-> p]
    ELSE IF p.requires_grad
         THEN [ok |-> TRUE,
               val |-> [p EXCEPT !.val = apply_grad(o, p.val, grad(p.val))]]
         ELSE [ok |-> TRUE, val |-> p]

\* Mutants of range: one-based; one item too many.
range_from_one(n) == [k \in 1..n |-> k]

range_inclusive(n) == [k \in 1..(n + 1) |-> k - 1]

\* range(n) as the sequence 0, 1, ..., n-1.
range(n) == [k \in 1..n |-> k - 1]

\* log_metric(metric_name="expval", iteration_number=i, value=expval)
log_metric(name, iter, value) ==
    [metric_name |-> name, iteration_number |-> iter, value |-> value]

\* Mutant of OnException: the exception is swallowed and the loop goes on.
OnException_continue == "for"

\* An exception raised in the loop body is not caught: the invocation ends.
OnException == "failed"

-----------------------------------------------------------------------------
(* The driver *)

StepSizes == {-(3 * Scale), -(Scale \div 2), 0, Scale \div 2}

NoRun ==
    [status |-> "none", variant |-> "none", num_steps |-> 0, stepsize |-> 0,
     records |-> <<>>, result |-> <<>>]

\* What the process has seen of an invocation that returned.
Finished ==
    [status |-> pc, variant |-> variant, num_steps |-> num_steps,
     stepsize |-> stepsize, records |-> records, result |-> result]

Init ==
    /\ variant = "none"
    /\ num_steps = 0
    /\ stepsize = 0
    /\ opt = GradientDescentOptimizer(0)
    /\ params = numpy_array(<<>>)
    /\ it = 0
    /\ i = -1
    /\ expval = 0
    /\ records = <<>>
    /\ result = <<>>
    /\ pc = "idle"
    /\ exception = "none"
    /\ optCalls = 0
    /\ circuitCalls = 0
    /\ prev = NoRun

\* What both functions do on entry besides building params: a call is made
\* when no invocation is running (single-threaded); the optimizer is built
\* anew from the stepsize argument and the for loop is entered.
Enter(n, s) ==
    /\ pc \in {"idle", "done", "failed"}
    /\ prev' = IF pc = "done" THEN Finished ELSE prev
    /\ num_steps' = n
    /\ stepsize' = s
    /\ opt' = GradientDescentOptimizer(s)
    /\ it' = 0
    /\ i' = -1
    /\ expval' = 0
    /\ records' = <<>>
    /\ result' = <<>>
    /\ exception' = "none"
    /\ optCalls' = 0
    /\ circuitCalls' = 0
    /\ pc' = "for"

\* qubit_rotation(num_steps, stepsize): np is pennylane.numpy.
qubit_rotation(n, s) ==
    /\ variant' = "local"
    /\ params' = pennylane_numpy_array(InitialList)
    /\ Enter(n, s)

\* hybrid_braket_aws(num_steps, stepsize): np is numpy.
hybrid_braket_aws(n, s) ==
    /\ variant' = "aws"
    /\ params' = numpy_array(InitialList)
    /\ Enter(n, s)

\* for i in range(num_steps): the next item is bound to i.
ForNext ==
    /\ pc = "for"
    /\ it < Len(range(num_steps))
    /\ i' = range(num_steps)[it + 1]
    /\ it' = it + 1
    /\ pc' = "step"
    /\ UNCHANGED <<variant, num_steps, stepsize, opt, params, expval, records,
                   result, exception, optCalls, circuitCalls, prev>>

\* range exhausted: return params.
ForEnd ==
    /\ pc = "for"
    /\ it >= Len(range(num_steps))
    /\ result' = <<params>>
    /\ pc' = "done"
    /\ UNCHANGED <<variant, num_steps, stepsize, opt, params, it, i, expval,
                   records, exception, optCalls, circuitCalls, prev>>

\* params = opt.step(circuit, params)
StepOk ==
    /\ pc = "step"
    /\ opt_step(opt, params).ok
    /\ params' = opt_step(opt, params).val
    /\ optCalls' = optCalls + 1
    /\ pc' = "eval"
    /\ UNCHANGED <<variant, num_steps, stepsize, opt, it, i, expval, records,
                   result, exception, circuitCalls, prev>>

\* opt.step raises (the circuit's IndexError, or a failure of the backend).
StepRaise ==
    /\ pc = "step"
    /\ optCalls' = optCalls + 1
    /\ exception' = "step"
    /\ pc' = OnException
    /\ UNCHANGED <<variant, num_steps, stepsize, opt, params, it, i, expval,
                   records, result, circuitCalls, prev>>

\* expval = circuit(params)
EvalOk ==
    /\ pc = "eval"
    /\ circuit(params.val).ok
    /\ expval' = circuit(params.val).val
    /\ circuitCalls' = circuitCalls + 1
    /\ pc' = "log"
    /\ UNCHANGED <<variant, num_steps, stepsize, opt, params, it, i, records,
                   result, exception, optCalls, prev>>

\* circuit raises.
EvalRaise ==
    /\ pc = "eval"
    /\ circuitCalls' = circuitCalls + 1
    /\ exception' = "eval"
    /\ pc' = OnException
    /\ UNCHANGED <<variant, num_steps, stepsize, opt, params, it, i, expval,
                   records, result, optCalls, prev>>

\* log_metric(...), then back to the loop head.
Log ==
    /\ pc = "log"
    /\ records' = Append(records, log_metric("expval", i, expval))
    /\ pc' = "for"
    /\ UNCHANGED <<variant, num_steps, stepsize, opt, params, it, i, expval,
                   result, exception, optCalls, circuitCalls, prev>>

\* The statements of one invocation.
Run == ForNext \/ ForEnd \/ StepOk \/ StepRaise \/ EvalOk \/ EvalRaise \/ Log

Next ==
    \/ \E n \in 0..MaxSteps, s \in StepSizes : qubit_rotation(n, s)
    \/ \E n \in 0..MaxSteps, s \in StepSizes : hybrid_braket_aws(n, s)
    \/ ForNext
    \/ ForEnd
    \/ StepOk
    \/ StepRaise
    \/ EvalOk
    \/ EvalRaise
    \/ Log

Spec == Init /\ [][Next]_vars

\* Execution is synchronous and single-threaded: a running invocation always
\* executes its next statement.
FairSpec == Spec /\ WF_vars(Run)

-----------------------------------------------------------------------------
(* The circuit evaluator on its own: one call on a vector of any length *)

Angles == {0, Scale \div 2, (3 * Scale) \div 4, -Scale, 3 * Scale}

Vectors == UNION {[1..n -> Angles] : n \in 0..MaxLen}

InitCircuit ==
    /\ variant = "none"
    /\ num_steps = 0
    /\ stepsize = 0
    /\ opt = GradientDescentOptimizer(0)
    /\ params \in {pennylane_numpy_array(v) : v \in Vectors}
    /\ it = 0
    /\ i = -1
    /\ expval = 0
    /\ records = <<>>
    /\ result = <<>>
    /\ pc = "call"
    /\ exception = "none"
    /\ optCalls = 0
    /\ circuitCalls = 0
    /\ prev = NoRun

\* circuit(params) returns the expectation value.
CircuitReturns ==
    /\ pc = "call"
    /\ circuit(params.val).ok
    /\ expval' = circuit(params.val).val
    /\ circuitCalls' = circuitCalls + 1
    /\ pc' = "returned"
    /\ UNCHANGED <<variant, num_steps, stepsize, opt, params, it, i, records,
                   result, exception, optCalls, prev>>

\* circuit(params) raises IndexError.
CircuitRaises ==
    /\ pc = "call"
    /\ ~circuit(params.val).ok
    /\ circuitCalls' = circuitCalls + 1
    /\ exception' = "eval"
    /\ pc' = OnException
    /\ UNCHANGED <<variant, num_steps, stepsize, opt, params, it, i, expval,
                   records, result, optCalls, prev>>

NextCircuit == CircuitReturns \/ CircuitRaises

SpecCircuit == InitCircuit /\ [][NextCircuit]_vars

-----------------------------------------------------------------------------
(* Properties *)

Indices(recs) == [k \in 1..Len(recs) |-> recs[k].iteration_number]

Values(recs) == [k \in 1..Len(recs) |-> recs[k].value]

NonDecreasing(seq) == \A k \in 1..(Len(seq) - 1) : seq[k] <= seq[k + 1]

SameCall(r) ==
    /\ r.status = "done"
    /\ pc = "done"
    /\ r.num_steps = num_steps
    /\ r.stepsize = stepsize

\* C1: the iteration indices of the records emitted so far are 0, 1, 2, ... in
\* emission order, never more than num_steps of them, and a completed
\* invocation has emitted exactly num_steps records (indices 0..num_steps-1).
C1_ContiguousIndices ==
    /\ Indices(records) = [k \in 1..Len(records) |-> k - 1]
    /\ Len(records) <= num_steps
    /\ pc = "done" => Len(records) = num_steps

C1_Witness ==
    /\ pc = "done"
    /\ num_steps >= 2
    /\ Len(records) = num_steps
    /\ records[2].iteration_number = 1

\* C2: an invocation with num_steps = 0 returns the initial vector (0.5, 0.75),
\* emits no record and calls neither opt.step nor circuit.
C2_ZeroSteps ==
    (pc = "done" /\ num_steps = 0) =>
        /\ Len(result) = 1
        /\ result[1].val = <<Scale \div 2, (3 * Scale) \div 4>>
        /\ records = <<>>
        /\ optCalls = 0
        /\ circuitCalls = 0

C2_Witness == pc = "done" /\ num_steps = 0 /\ Len(result) = 1

\* C3: the loop never takes more than num_steps iterations, it is done only
\* after exactly num_steps iterations (num_steps calls of opt.step and of
\* circuit, num_steps records), and a running invocation eventually is done
\* unless a call raised.
C3_ExactlyNIterations ==
    /\ [](it <= num_steps /\ optCalls <= num_steps)
    /\ [](pc = "done" =>
            /\ it = num_steps
            /\ optCalls = num_steps
            /\ circuitCalls = num_steps
            /\ Len(records) = num_steps)
    /\ (pc = "for" /\ it = 0) ~> (pc = "done" \/ exception # "none")

C3_Witness ==
    pc = "done" /\ num_steps >= 2 /\ it = num_steps /\ optCalls = num_steps

\* C5: once a call of iteration k has raised, the invocation has failed: no
\* vector is returned, the records are those of iterations 0..k-1, the failing
\* call was made once (k+1 calls of opt.step; k or k+1 calls of circuit), the
\* failing step emits and returns nothing, and nothing follows but a new call.
C5_FailurePropagates ==
    /\ [](exception # "none" =>
            /\ pc = "failed"
            /\ result = <<>>
            /\ Len(records) = i
            /\ Indices(records) = [k \in 1..i |-> k - 1]
            /\ optCalls = i + 1
            /\ circuitCalls = IF exception = "step" THEN i ELSE i + 1)
    /\ [][/\ (exception = "none" /\ exception' # "none") =>
                 (records' = records /\ result' = result /\ params' = params)
          /\ exception # "none" =>
                 (pc' = "for" /\ it' = 0 /\ optCalls' = 0 /\ records' = <<>>)]_vars

C5_Witness ==
    /\ pc = "failed"
    /\ exception = "eval"
    /\ i = 1
    /\ Len(records) = 1

\* C7: from entry to return the parameter vector has exactly two components,
\* and so has the returned vector.
C7_TwoComponents ==
    pc # "idle" =>
        /\ Len(params.val) = 2
        /\ pc = "done" => (Len(result) = 1 /\ Len(result[1].val) = 2)

C7_Witness ==
    /\ pc = "done"
    /\ variant = "local"
    /\ num_steps >= 1
    /\ stepsize # 0
    /\ result[1].val # <<Scale \div 2, (3 * Scale) \div 4>>
    /\ Len(result[1].val) = 2

\* C8: two completed invocations of the same function with the same step count
\* and step-size, one after the other in the same process, emit the same
\* records and return the same vector.
C8_RepeatedInvocation ==
    (SameCall(prev) /\ prev.variant = variant) =>
        (prev.records = records /\ prev.result = result)

C8_Witness ==
    /\ SameCall(prev)
    /\ prev.variant = variant
    /\ variant = "local"
    /\ num_steps >= 2
    /\ stepsize # 0
    /\ Len(records) = num_steps

\* C4 (as claimed): in every iteration opt.step replaces params by
\* params - stepsize * gradient of the circuit at params, then the circuit is
\* evaluated at the updated vector, then the record (i, that value) is
\* emitted; the returned vector is the one the last value was evaluated at.
C4_UpdateEvalEmit ==
    [][/\ (pc = "step" /\ pc' = "eval") =>
              params'.val = apply_grad(opt, params.val, grad(params.val))
       /\ (pc = "eval" /\ pc' = "log") =>
              (expval' = circuit(params.val).val /\ params' = params)
       /\ (pc = "log" /\ pc' = "for") =>
              (records' = Append(records, log_metric("expval", i, expval))
               /\ params' = params)
       /\ (pc = "for" /\ pc' = "done" /\ records # <<>>) =>
              (result' = <<params>>
               /\ records[Len(records)].value = circuit(params.val).val)]_vars

\* C6 (as claimed): the circuit returns exactly when the vector has two
\* elements, and raises for every other length.
C6_ExactlyTwo ==
    pc \in {"returned", "failed"} =>
        ((pc = "returned") <=> (Len(params.val) = 2))

\* C6 (amended): the circuit raises exactly when the vector has fewer than two
\* elements; with two or more it returns a value in [-1, 1].
C6_AtLeastTwo ==
    pc \in {"returned", "failed"} =>
        /\ (pc = "returned") <=> (Len(params.val) >= 2)
        /\ (pc = "failed") <=> (Len(params.val) < 2)
        /\ expval \in (-Scale)..Scale

C6_Witness ==
    /\ pc = "returned"
    /\ Len(params.val) = 3
    /\ expval # 0

\* C9 (as claimed): a completed invocation of one function and a completed
\* invocation of the other, with the same step count and step-size, emit the
\* same records and return the same vector.
C9_VariantsAgree ==
    (SameCall(prev) /\ prev.variant # variant) =>
        /\ prev.records = records
        /\ prev.result[1].val = result[1].val

\* C10 (as claimed): with a step-size <= 0 the call is rejected before any
\* record is emitted, or the emitted values are non-decreasing.
C10_NonPositiveStepsize ==
    stepsize <= 0 =>
        \/ (pc = "failed" /\ records = <<>>)
        \/ NonDecreasing(Values(records))

\* C10 (amended): a step-size <= 0 is not rejected (an invocation fails only
\* when a call of the loop body raised); with step-size zero every emitted
\* value is the circuit's value at the initial vector (0.5, 0.75), so the
\* values are constant, and the vector is never changed; in both functions.
C10_ZeroStepsize ==
    /\ (stepsize <= 0 /\ pc = "failed") => (exception # "none" /\ optCalls >= 1)
    /\ (stepsize = 0 /\ pc # "idle") =>
        /\ \A k \in 1..Len(records) :
              records[k].value
                  = circuit(<<Scale \div 2, (3 * Scale) \div 4>>).val
        /\ NonDecreasing(Values(records))
        /\ params.val = <<Scale \div 2, (3 * Scale) \div 4>>

C10_Witness ==
    /\ stepsize = 0
    /\ pc = "done"
    /\ variant = "local"
    /\ Len(records) >= 2

=============================================================================
